---- MODULE Spec2Model ----
(***************************************************************************)
(* A model of src/src/index.js: the uploadsManager singleton (an ordered   *)
(* list of upload records with a listener list), the uploads panel that    *)
(* mirrors it (CustomUploadSection), the canvas insertion of an image      *)
(* (getImageDimensions / addImageToCanvas) and the toolbar export          *)
(* (CustomToolbar.handleDownload).                                         *)
(*                                                                         *)
(* JavaScript runs each handler to completion, so every handler is one     *)
(* action; an await splits a handler into the part before and the          *)
(* continuation after the promise settles.                                 *)
(***************************************************************************)
EXTENDS Integers, Sequences, FiniteSets, TLC

VARIABLES
  uploads,     \* uploadsManager.uploads
  listeners,   \* uploadsManager.listeners: entries [fn, sub]
  subFn,       \* ghost: subFn[s] is the callback of the s-th subscribe call
  cancelled,   \* ghost: subscriptions whose unsubscribe function was called
  added,       \* ghost: every addUpload argument so far, in call order, each
               \* with whether a deleteUpload of its id was called after it
  last,        \* ghost: what the last addUpload / deleteUpload call did
  panel,       \* CustomUploadSection: its phase, its React state and its listener
  pending,     \* FileReaders whose onload has not fired, per file name
  now,         \* Date.now()
  issued,      \* ghost: the ids given to upload records, in order
  image,       \* the image behind the thumbnail that is clicked: its
               \* intrinsic size, and whether it can be decoded
  inserts,     \* the addImageToCanvas calls: where each one is
  elements,    \* the elements addElement was asked for, in order
  selected,    \* the element last passed to selectElements (0: none)
  imageName,   \* CustomToolbar: the imageName state
  isDownloading, \* CustomToolbar: the isDownloading state
  run,         \* the handleDownload call awaiting store.toDataURL()
  calls,       \* ghost: the number of handleDownload calls so far
  latest,      \* ghost: what the latest handleDownload call did
  console      \* the console.error calls

storeVars == <<uploads, listeners, subFn, cancelled, added, last>>
panelVars == <<panel, pending, now, issued>>
insertVars == <<image, inserts, elements, selected>>
downloadVars == <<imageName, isDownloading, run, calls, latest>>
toolVars == <<image, inserts, elements, selected,
              imageName, isDownloading, run, calls, latest, console>>

vars == <<uploads, listeners, subFn, cancelled, added, last,
          panel, pending, now, issued, image, inserts, elements, selected,
          imageName, isDownloading, run, calls, latest, console>>

(***************************************************************************)
(* Bounds and input sets.                                                  *)
(***************************************************************************)
MaxAdds == 2       \* addUpload calls in one run
MaxSubs == 2       \* subscribe calls in one run
MaxMounts == 2     \* times the uploads panel is opened in one run
MaxFiles == 2      \* files read in one run
MaxClock == 1      \* milliseconds Date.now() advances in one run
FracSteps == 2     \* doubles between two consecutive millisecond values
MaxInserts == 2    \* addImageToCanvas calls in one run
MaxNameLen == 2    \* characters typed into the image name field
MaxDownloads == 2  \* handleDownload calls in one run

\* intrinsic image sizes
Widths == {1, 3, 7, 100, 300, 599, 600, 601, 800, 1200, 1201, 1920, 4000}
Heights == {1, 2, 200, 225, 300, 399, 400, 401, 420, 530, 800, 1080, 3000}
Corrupt == [width |-> 0, height |-> 0, ok |-> FALSE]
Images == [width : Widths, height : Heights, ok : {TRUE}] \cup {Corrupt}

\* characters of an image name
Chars == {" ", "\t", "a"}

RecordIds == {1, 2}
Names == {"a.png", "b.png"}
Fns == {1, 2, 3}

\* addUpload called with no argument: the parameter is undefined
Undefined == [undefined |-> TRUE]

Records == [id : RecordIds, name : Names, url : {"data:image/png;base64"}]

(***************************************************************************)
(* Helpers on sequences.                                                   *)
(***************************************************************************)
RECURSIVE Filter(_, _)
\* Array.prototype.filter with a membership test: the elements of s whose
\* index is in keep, in order
Filter(s, keep) ==
  IF s = <<>> THEN <<>>
  ELSE LET n == Len(s)
           front == Filter(SubSeq(s, 1, n - 1), keep)
       IN IF n \in keep THEN Append(front, s[n]) ELSE front

\* what a listener does when it is invoked, besides reading its argument:
\* the callback whose unsubscribe function it calls (0: none).  Callbacks
\* 1, 4, 7, ... only read; 2, 5, ... unsubscribe themselves; 3, 6, ...
\* unsubscribe the callback two below them.
Stops(f) == IF f % 3 = 1 THEN 0 ELSE IF f % 3 = 2 THEN f ELSE f - 2

(***************************************************************************)
(* JavaScript numbers.  A Number is an IEEE-754 binary64 value; the ones   *)
(* met here are positive and finite.  A natural number of any size is a    *)
(* sequence of digits to the base 2^15, lowest first, with no leading      *)
(* zero; a Number is m * 2^e with m an odd natural of at most              *)
(* SignificandBits bits.  Integers given to these operators are below 2^15.*)
(***************************************************************************)
SignificandBits == 53

Base == 2^15

DigitAt(a, i) == IF i \in 1..Len(a) THEN a[i] ELSE 0

BigTrim(a) ==
  LET used == {i \in 1..Len(a) : a[i] # 0}
  IN IF used = {} THEN <<>>
     ELSE SubSeq(a, 1, CHOOSE i \in used : \A k \in used : k <= i)

BigOf(n) == BigTrim(<<n % Base, (n \div Base) % Base, n \div (Base * Base)>>)

RECURSIVE BigTimes(_, _, _)
\* a * n + c
BigTimes(a, n, c) ==
  IF a = <<>> THEN BigOf(c)
  ELSE LET t == Head(a) * n + c
       IN <<t % Base>> \o BigTimes(Tail(a), n, t \div Base)

RECURSIVE BigInc(_)
BigInc(a) ==
  IF a = <<>> THEN <<1>>
  ELSE IF Head(a) < Base - 1 THEN <<Head(a) + 1>> \o Tail(a)
       ELSE <<0>> \o BigInc(Tail(a))

RECURSIVE BigMinus(_, _, _)
\* a - b - borrow, for a >= b + borrow; not trimmed
BigMinus(a, b, borrow) ==
  IF a = <<>> THEN <<>>
  ELSE LET t == Head(a) - DigitAt(b, 1) - borrow
       IN <<(t + Base) % Base>> \o
          BigMinus(Tail(a), IF b = <<>> THEN <<>> ELSE Tail(b), IF t < 0 THEN 1 ELSE 0)

\* the number of bits of a
BitLen(a) ==
  IF a = <<>> THEN 0
  ELSE 15 * (Len(a) - 1) +
       (CHOOSE k \in 1..15 : 2^(k - 1) <= a[Len(a)] /\ a[Len(a)] < 2^k)

\* bit k of a, the lowest being bit 1
Bit(a, k) == (DigitAt(a, (k - 1) \div 15 + 1) \div 2^((k - 1) % 15)) % 2

\* a * 2^k
BigShl(a, k) ==
  LET d == k \div 15
      s == k % 15
  IN BigTrim([i \in 1..(Len(a) + d + 1) |->
                ((DigitAt(a, i - d) * 2^s) % Base) + (DigitAt(a, i - d - 1) \div 2^(15 - s))])

\* a \div 2^k
BigShr(a, k) ==
  LET d == k \div 15
      s == k % 15
  IN BigTrim([i \in 1..(Len(a) - d) |->
                (DigitAt(a, i + d) \div 2^s) + ((DigitAt(a, i + d + 1) % 2^s) * 2^(15 - s))])

\* a <= b
BigLeq(a, b) ==
  \/ Len(a) < Len(b)
  \/ /\ Len(a) = Len(b)
     /\ \/ a = b
        \/ \E i \in 1..Len(a) :
             /\ a[i] < b[i]
             /\ \A k \in (i + 1)..Len(a) : a[k] = b[k]

\* |a - b|
BigDiff(a, b) ==
  IF BigLeq(a, b) THEN BigTrim(BigMinus(b, a, 0)) ELSE BigTrim(BigMinus(a, b, 0))

\* the Number a * 2^e, for a > 0 of at most SignificandBits bits
Num(a, e) ==
  LET k == CHOOSE z \in 0..(BitLen(a) - 1) :
             Bit(a, z + 1) = 1 /\ \A b \in 1..z : Bit(a, b) = 0
  IN [m |-> BigShr(a, k), e |-> e + k]

\* an integer as a Number
Int2Num(n) == Num(BigOf(n), 0)

\* a * 2^e rounded to the nearest Number, ties to the even significand
Round(a, e) ==
  IF BitLen(a) <= SignificandBits THEN Num(a, e)
  ELSE LET drop == BitLen(a) - SignificandBits
           q == BigShr(a, drop)
           half == Bit(a, drop) = 1
           more == \E i \in 1..(drop - 1) : Bit(a, i) = 1
           up == half /\ (more \/ Bit(q, 1) = 1)
       IN Num(IF up THEN BigInc(q) ELSE q, e + drop)

RECURSIVE Fraction(_, _, _)
\* the next k digits of rem / d by long division, highest first, and what
\* remains
Fraction(rem, d, k) ==
  IF k = 0 THEN [digits |-> <<>>, rem |-> rem]
  ELSE LET t == rem * Base
           r == Fraction(t % d, d, k - 1)
       IN [digits |-> Append(r.digits, t \div d), rem |-> r.rem]

\* n / d for positive integers: the quotient to 90 binary places, which is
\* more than two bits beyond what a Number holds, and one bit that tells
\* whether anything remains, rounded once
Divide(n, d) ==
  LET f == Fraction(n % d, d, 6)
      q == BigTrim(f.digits \o BigOf(n \div d))
  IN Round(BigTimes(q, 2, IF f.rem = 0 THEN 0 ELSE 1), -91)

\* x * n for a Number x and a positive integer n
Times(x, n) == Round(BigTimes(x.m, n, 0), x.e)

\* x <= y
Leq(x, y) ==
  LET e0 == IF x.e < y.e THEN x.e ELSE y.e
  IN BigLeq(BigShl(x.m, x.e - e0), BigShl(y.m, y.e - e0))

\* the larger of x and y
MathMax(x, y) == IF Leq(x, y) THEN y ELSE x

\* Math.min(x, y)
MathMin(x, y) == IF Leq(x, y) THEN x ELSE y

(***************************************************************************)
(* uploadsManager                                                          *)
(***************************************************************************)
\* getUploads()
getUploads == uploads

\* the closure subscribe returns: this.listeners.filter(l => l !== listener)
unsubscribe(ls, f) == Filter(ls, {i \in 1..Len(ls) : ls[i].fn # f})

\* the subscription a call of f's unsubscribe function ends: the oldest
\* subscription of f that is still open (0 when there is none)
Ends(f, done) ==
  LET open == {s \in 1..Len(subFn) : subFn[s] = f /\ s \notin done}
  IN IF open = {} THEN 0 ELSE CHOOSE s \in open : \A t \in open : s <= t

RECURSIVE forEach(_, _, _, _, _, _)
\* this.listeners.forEach(listener => listener(this.uploads)): forEach walks
\* the array object it was called on (snap), also when a listener replaces
\* this.listeners (cur) meanwhile.  Returns the listeners, the subscriptions
\* ended and the events, in order.
forEach(snap, i, ups, cur, done, events) ==
  IF i > Len(snap) THEN [listeners |-> cur, cancelled |-> done, events |-> events]
  ELSE LET l == snap[i]
           call == [ev |-> "invoke", fn |-> l.fn, sub |-> l.sub, arg |-> ups]
           t == Stops(l.fn)
       IN IF t = 0
          THEN forEach(snap, i + 1, ups, cur, done, Append(events, call))
          ELSE LET e == Ends(t, done)
               IN forEach(snap, i + 1, ups, unsubscribe(cur, t),
                          IF e = 0 THEN done ELSE done \cup {e},
                          Append(Append(events, call),
                                 [ev |-> "unsub", fn |-> t, sub |-> e, arg |-> ups]))

\* notifyListeners()
notifyListeners(ups, ls, done) == forEach(ls, 1, ups, ls, done, <<>>)

\* upload.id inside deleteUpload's filter callback: reading a property of
\* undefined throws a TypeError
Throws(ups) == \E i \in 1..Len(ups) : ups[i] = Undefined

\* a filter that drops only the first record with the id
withoutFirstId(ups, id) ==
  LET hits == {i \in 1..Len(ups) : ups[i].id = id}
  IN Filter(ups, {i \in 1..Len(ups) : \E h \in hits : h < i \/ ups[i].id # id})

\* this.uploads.filter(upload => upload.id !== id)
withoutId(ups, id) == Filter(ups, {i \in 1..Len(ups) : ups[i].id # id})

Before == [listeners |-> listeners, cancelled |-> cancelled]

\* ghost: a deleteUpload(id) call was made: mark what was added under id
MarkDeleted(id) ==
  [i \in 1..Len(added) |->
     IF added[i].rec # Undefined /\ added[i].rec.id = id
     THEN [added[i] EXCEPT !.deleted = TRUE] ELSE added[i]]

\* ghost: no addUpload or deleteUpload call was the last step
NoCall == [op |-> "none", threw |-> FALSE,
           before |-> [listeners |-> <<>>, cancelled |-> {}],
           events |-> <<>>]

\* addUpload(upload): the store after the call
addUpload(u) ==
  LET ups == Append(uploads, u)
      n == notifyListeners(ups, listeners, cancelled)
  IN [uploads |-> ups, listeners |-> n.listeners, cancelled |-> n.cancelled,
      threw |-> FALSE, events |-> n.events]

\* deleteUpload(id): the store after the call
deleteUpload(id) ==
  IF Throws(uploads)
  THEN [uploads |-> uploads, listeners |-> listeners, cancelled |-> cancelled,
        threw |-> TRUE, events |-> <<>>]
  ELSE LET ups == withoutId(uploads, id)
           n == notifyListeners(ups, listeners, cancelled)
       IN [uploads |-> ups, listeners |-> n.listeners, cancelled |-> n.cancelled,
           threw |-> FALSE, events |-> n.events]

\* the store variables after a call that left the store as r
Store(r) ==
  /\ uploads' = r.uploads
  /\ listeners' = r.listeners
  /\ cancelled' = r.cancelled

\* a call of uploadsManager.addUpload(u)
AddUpload(u) ==
  /\ Len(added) < MaxAdds
  /\ LET r == addUpload(u)
     IN /\ Store(r)
        /\ last' = [op |-> "add", threw |-> r.threw, before |-> Before,
                    events |-> r.events]
  /\ added' = Append(added, [rec |-> u, deleted |-> FALSE])
  /\ UNCHANGED <<subFn, panelVars, toolVars>>

\* a call of uploadsManager.deleteUpload(id)
DeleteUpload(id) ==
  /\ LET r == deleteUpload(id)
     IN /\ Store(r)
        /\ last' = [op |-> "del", threw |-> r.threw, before |-> Before,
                    events |-> r.events]
  /\ added' = MarkDeleted(id)
  /\ UNCHANGED <<subFn, panelVars, toolVars>>

\* subscribe(listener)
Subscribe(f) ==
  /\ Len(subFn) < MaxSubs
  /\ listeners' = Append(listeners, [fn |-> f, sub |-> Len(subFn) + 1])
  /\ subFn' = Append(subFn, f)
  /\ last' = NoCall
  /\ UNCHANGED <<uploads, cancelled, added, panelVars, toolVars>>

\* a call, outside a notification, of the function subscribe returned for
\* subscription s
Unsubscribe(s) ==
  /\ s \in 1..Len(subFn)
  /\ s \notin cancelled
  /\ listeners' = unsubscribe(listeners, subFn[s])
  /\ cancelled' = cancelled \cup {s}
  /\ last' = NoCall
  /\ UNCHANGED <<uploads, subFn, added, panelVars, toolVars>>

\* no handleDownload call yet
NoDownload ==
  [name |-> <<>>, alerted |-> FALSE, busy |-> FALSE, rasterized |-> FALSE,
   outcome |-> "none", download |-> <<>>]

Init ==
  /\ uploads = <<>>
  /\ listeners = <<>>
  /\ subFn = <<>>
  /\ cancelled = {}
  /\ added = <<>>
  /\ last = NoCall
  /\ panel = [phase |-> "unmounted", shown |-> <<>>, sub |-> 0]
  /\ pending = [n \in Names |-> 0]
  /\ now = 0
  /\ issued = <<>>
  /\ image = [width |-> 300, height |-> 200, ok |-> TRUE]
  /\ inserts = <<>>
  /\ elements = <<>>
  /\ selected = 0
  /\ imageName = <<"m", "y", "-", "d", "e", "s", "i", "g", "n">>
  /\ isDownloading = FALSE
  /\ run = [pc |-> "idle", name |-> <<>>]
  /\ calls = 0
  /\ latest = NoDownload
  /\ console = <<>>

Next ==
  \/ \E r \in Records : AddUpload(r)
  \/ AddUpload(Undefined)
  \/ \E id \in RecordIds : DeleteUpload(id)
  \/ \E f \in Fns : Subscribe(f)
  \/ \E s \in 1..MaxSubs : Unsubscribe(s)

Spec == Init /\ [][Next]_vars

(***************************************************************************)
(* CustomUploadSection: the uploads panel.  It is mounted when its tab is  *)
(* opened and unmounted when another tab is opened; the FileReaders it     *)
(* started keep running after it is unmounted.                             *)
(***************************************************************************)
\* the listener a mount passes to subscribe: a new closure per mount, which
\* only calls setUploads
PanelFn(s) == 3 * s + 1

\* Date.now() + Math.random(): the sum is rounded to a double, of which there
\* are FracSteps per millisecond at the magnitude of Date.now(); k counts the
\* steps above now, and a random number in the last half step rounds up to
\* the next millisecond
NewId(k) == now * FracSteps + k

\* the React state after the events of a store call: setUploads(newUploads)
Shown(events) ==
  LET mine == {i \in 1..Len(events) :
                 events[i].ev = "invoke" /\ events[i].sub = panel.sub}
  IN IF panel.phase # "subscribed" \/ mine = {} THEN panel.shown
     ELSE events[CHOOSE i \in mine : \A j \in mine : j <= i].arg

\* the panel renders for the first time: useState(uploadsManager.getUploads())
Render ==
  /\ panel.phase = "unmounted"
  /\ Len(subFn) < MaxMounts
  /\ panel' = [phase |-> "rendered", shown |-> getUploads, sub |-> 0]
  /\ UNCHANGED <<storeVars, pending, now, issued, toolVars>>

\* the effect of the mount runs: uploadsManager.subscribe(...)
Effect ==
  /\ panel.phase = "rendered"
  /\ listeners' = Append(listeners, [fn |-> PanelFn(Len(subFn) + 1),
                                     sub |-> Len(subFn) + 1])
  /\ subFn' = Append(subFn, PanelFn(Len(subFn) + 1))
  /\ panel' = [panel EXCEPT !.phase = "subscribed", !.sub = Len(subFn) + 1]
  /\ UNCHANGED <<uploads, cancelled, added, last, pending, now, issued, toolVars>>

\* the panel is unmounted: the effect's cleanup, unsubscribe, runs if the
\* effect ran
Unmount ==
  /\ panel.phase # "unmounted"
  /\ IF panel.phase = "subscribed"
     THEN /\ listeners' = unsubscribe(listeners, subFn[panel.sub])
          /\ cancelled' = cancelled \cup {panel.sub}
     ELSE UNCHANGED <<listeners, cancelled>>
  /\ panel' = [phase |-> "unmounted", shown |-> <<>>, sub |-> 0]
  /\ UNCHANGED <<uploads, subFn, added, last, pending, now, issued, toolVars>>

RECURSIVE Started(_, _)
\* reader.readAsDataURL(file) for each file of the selection
Started(files, p) ==
  IF files = <<>> THEN p
  ELSE Started(Tail(files), [p EXCEPT ![Head(files)] = @ + 1])

Reading == pending["a.png"] + pending["b.png"]

\* handleFileUpload(e): the change event of the panel's file input.  React
\* runs the pending effects of a render before it handles a user event.
HandleFileUpload(files) ==
  /\ panel.phase = "subscribed"
  /\ Len(issued) + Reading + Len(files) <= MaxFiles
  /\ IF Len(files) = 0
     THEN UNCHANGED pending
     ELSE pending' = Started(files, pending)
  /\ UNCHANGED <<storeVars, panel, now, issued, toolVars>>

\* reader.onload of a file named n: addUpload({id, name, url})
ReaderOnload(n, k) ==
  /\ pending[n] > 0
  /\ pending' = [pending EXCEPT ![n] = @ - 1]
  /\ LET r == addUpload([id |-> NewId(k), name |-> n, url |-> "data:image/png;base64"])
     IN /\ Store(r)
        /\ panel' = [panel EXCEPT !.shown = Shown(r.events)]
  /\ issued' = Append(issued, NewId(k))
  /\ UNCHANGED <<subFn, added, last, now, toolVars>>

\* deleteUpload(id, e): a click on the trash button of a shown upload
ClickDelete(i) ==
  /\ panel.phase = "subscribed"
  /\ i \in 1..Len(panel.shown)
  /\ LET r == deleteUpload(panel.shown[i].id)
     IN /\ Store(r)
        /\ panel' = [panel EXCEPT !.shown = Shown(r.events)]
  /\ UNCHANGED <<subFn, added, last, pending, now, issued, toolVars>>

\* a millisecond passes
Tick ==
  /\ now < MaxClock
  /\ now' = now + 1
  /\ UNCHANGED <<storeVars, panel, pending, issued, toolVars>>

FileLists == {<<>>} \cup {<<n>> : n \in Names} \cup {<<n, m>> : n \in Names, m \in Names}

PanelNext ==
  \/ Render
  \/ Effect
  \/ Unmount
  \/ \E files \in FileLists : HandleFileUpload(files)
  \/ \E n \in Names, k \in 0..FracSteps : ReaderOnload(n, k)
  \/ \E i \in 1..MaxFiles : ClickDelete(i)
  \/ Tick

PanelSpec == Init /\ [][PanelNext]_vars

\* C4: the ids of the records in uploadsManager.uploads are pairwise
\* distinct, and no id is given to two records.
C4_IdsUnique ==
  /\ \A i, j \in 1..Len(uploads) : i # j => uploads[i].id # uploads[j].id
  /\ \A i, j \in 1..Len(issued) : i # j => issued[i] # issued[j]

\* C10: whenever the panel is mounted and subscribed, the list it shows is
\* uploadsManager.getUploads().
C10_PanelShowsTheStore ==
  panel.phase = "subscribed" => panel.shown = getUploads

(***************************************************************************)
(* getImageDimensions and addImageToCanvas.                                *)
(***************************************************************************)
maxWidth == 600
maxHeight == 400

\* lines 109-121: the size addImageToCanvas passes to addElement for an
\* image of w by h
Fit(w, h) ==
  IF w > maxWidth \/ h > maxHeight
  THEN LET ratio == MathMin(Divide(maxWidth, w), Divide(maxHeight, h))
       IN [width |-> Times(ratio, w), height |-> Times(ratio, h)]
  ELSE [width |-> Int2Num(w), height |-> Int2Num(h)]

\* addImageToCanvas(imageUrl) up to its await: getImageDimensions makes an
\* Image, sets onload and src, and returns a promise
AddImageToCanvas ==
  /\ Len(inserts) < MaxInserts
  /\ inserts' = Append(inserts, "loading")
  /\ UNCHANGED <<storeVars, panelVars, image, elements, selected, downloadVars, console>>

\* img.onload: the promise resolves with the image's size
ImgOnload(c) ==
  /\ c \in 1..Len(inserts)
  /\ inserts[c] = "loading"
  /\ image.ok
  /\ inserts' = [inserts EXCEPT ![c] = "resolved"]
  /\ UNCHANGED <<storeVars, panelVars, image, elements, selected, downloadVars, console>>

\* the image cannot be decoded: the browser fires error at the Image, which
\* has no onerror, so the promise neither resolves nor rejects
ImgError(c) ==
  /\ c \in 1..Len(inserts)
  /\ inserts[c] = "loading"
  /\ ~image.ok
  /\ inserts' = [inserts EXCEPT ![c] = "failed"]
  /\ UNCHANGED <<storeVars, panelVars, image, elements, selected, downloadVars, console>>

\* addImageToCanvas after its await: addElement, then selectElements
Resume(c) ==
  /\ c \in 1..Len(inserts)
  /\ inserts[c] = "resolved"
  /\ LET size == Fit(image.width, image.height)
     IN elements' = Append(elements, [type |-> "image", width |-> size.width,
                                      height |-> size.height, by |-> c])
  /\ selected' = Len(elements) + 1
  /\ inserts' = [inserts EXCEPT ![c] = "done"]
  /\ UNCHANGED <<storeVars, panelVars, image, downloadVars, console>>

InsertInit ==
  /\ uploads = <<>>
  /\ listeners = <<>>
  /\ subFn = <<>>
  /\ cancelled = {}
  /\ added = <<>>
  /\ last = NoCall
  /\ panel = [phase |-> "unmounted", shown |-> <<>>, sub |-> 0]
  /\ pending = [n \in Names |-> 0]
  /\ now = 0
  /\ issued = <<>>
  /\ image \in Images
  /\ inserts = <<>>
  /\ elements = <<>>
  /\ selected = 0
  /\ imageName = <<"m", "y", "-", "d", "e", "s", "i", "g", "n">>
  /\ isDownloading = FALSE
  /\ run = [pc |-> "idle", name |-> <<>>]
  /\ calls = 0
  /\ latest = NoDownload
  /\ console = <<>>

InsertNext ==
  \/ AddImageToCanvas
  \/ \E c \in 1..MaxInserts : ImgOnload(c)
  \/ \E c \in 1..MaxInserts : ImgError(c)
  \/ \E c \in 1..MaxInserts : Resume(c)

InsertSpec == InsertInit /\ [][InsertNext]_vars

(***************************************************************************)
(* CustomToolbar.handleDownload.                                           *)
(***************************************************************************)
IsSpace(c) == c \in {" ", "\t"}

RECURSIVE TrimStart(_)
TrimStart(s) == IF s # <<>> /\ IsSpace(Head(s)) THEN TrimStart(Tail(s)) ELSE s

RECURSIVE TrimEnd(_)
TrimEnd(s) ==
  IF s # <<>> /\ IsSpace(s[Len(s)]) THEN TrimEnd(SubSeq(s, 1, Len(s) - 1)) ELSE s

\* a string kept as it is
Untrimmed(s) == s

\* String.prototype.trim
Trim(s) == TrimEnd(TrimStart(s))

\* isDownloading is cleared only when the export succeeded
ClearedOnSuccess(ok) == ~ok

\* finally { setIsDownloading(false) }: isDownloading after the try statement,
\* whether toDataURL resolved (ok) or rejected
AfterTry(ok) == FALSE

NameInputs ==
  UNION {[1..n -> Chars] : n \in 0..MaxNameLen}

\* onChange of the name field: setImageName(e.target.value)
SetImageName(s) ==
  /\ imageName' = s
  /\ UNCHANGED <<storeVars, panelVars, insertVars, isDownloading, run, calls,
                 latest, console>>

\* handleDownload() up to its await.  The button is disabled while
\* isDownloading is true.
HandleDownload ==
  /\ ~isDownloading
  /\ calls < MaxDownloads
  /\ calls' = calls + 1
  /\ IF Trim(imageName) = <<>>
     THEN /\ latest' = [name |-> imageName, alerted |-> TRUE, busy |-> FALSE,
                      rasterized |-> FALSE, outcome |-> "aborted",
                      download |-> <<>>]
          /\ UNCHANGED <<isDownloading, run>>
     ELSE /\ isDownloading' = TRUE
          /\ run' = [pc |-> "rasterizing", name |-> imageName]
          /\ latest' = [name |-> imageName, alerted |-> FALSE, busy |-> TRUE,
                      rasterized |-> TRUE, outcome |-> "pending",
                      download |-> <<>>]
  /\ UNCHANGED <<storeVars, panelVars, insertVars, imageName, console>>

\* store.toDataURL() resolves: the link is made, named, clicked and removed
Resolved ==
  /\ run.pc = "rasterizing"
  /\ latest' = [latest EXCEPT !.outcome = "downloaded",
                          !.download = Trim(run.name) \o <<".png">>]
  /\ isDownloading' = AfterTry(TRUE)
  /\ run' = [pc |-> "idle", name |-> <<>>]
  /\ UNCHANGED <<storeVars, panelVars, insertVars, imageName, calls, console>>

\* store.toDataURL() rejects: console.error('Download failed:', error)
Rejected ==
  /\ run.pc = "rasterizing"
  /\ latest' = [latest EXCEPT !.outcome = "failed"]
  /\ console' = Append(console, "Download failed:")
  /\ isDownloading' = AfterTry(FALSE)
  /\ run' = [pc |-> "idle", name |-> <<>>]
  /\ UNCHANGED <<storeVars, panelVars, insertVars, imageName, calls>>

DownloadNext ==
  \/ \E s \in NameInputs : SetImageName(s)
  \/ HandleDownload
  \/ Resolved
  \/ Rejected

\* the promise store.toDataURL() returns settles
DownloadSpec ==
  /\ Init
  /\ [][DownloadNext]_vars
  /\ WF_vars(Resolved \/ Rejected)

(***************************************************************************)
(* Claims about uploadsManager, checked under Spec.                        *)
(***************************************************************************)
InvokesOf(s) == {i \in 1..Len(last.events) :
                   last.events[i].ev = "invoke" /\ last.events[i].sub = s}

OnlyRecordsAdded == \A i \in 1..Len(added) : added[i].rec # Undefined

\* the added records no later deleteUpload call named, in the order added
Expected ==
  LET kept == Filter(added, {i \in 1..Len(added) : ~added[i].deleted})
  IN [i \in 1..Len(kept) |-> kept[i].rec]

\* C1: after any sequence of addUpload(record) and deleteUpload(id) calls
\* from the empty collection, getUploads() is exactly the added records that
\* were not removed afterwards, in the order they were added.
C1_ListIsAddedMinusRemoved == OnlyRecordsAdded => getUploads = Expected

C1_Witness ==
  /\ OnlyRecordsAdded
  /\ Len(added) = 2
  /\ added[1].deleted /\ ~added[2].deleted
  /\ added[1].rec.id # added[2].rec.id
  /\ Len(getUploads) = 1

\* C2: every addUpload or deleteUpload call invokes each listener subscribed
\* at the time of the call exactly once, with the collection getUploads()
\* returns right after the call.
C2_EachListenerOncePerCall ==
  last.op # "none" =>
    /\ \A k \in 1..Len(last.before.listeners) :
         LET inv == InvokesOf(last.before.listeners[k].sub)
         IN /\ Cardinality(inv) = 1
            /\ \A i \in inv : last.events[i].arg = getUploads
    /\ \A i \in 1..Len(last.events) :
         last.events[i].ev = "invoke" =>
           \E k \in 1..Len(last.before.listeners) :
             last.before.listeners[k].sub = last.events[i].sub

\* C3: once the unsubscribe function of a subscription has been called, that
\* subscription's listener is not invoked again, not even by the notification
\* that is running, and every other subscription stays registered and keeps
\* being notified.
C3_UnsubscribeStopsOnlyThatListener ==
  /\ \A i \in 1..Len(last.events) :
       last.events[i].ev = "invoke" =>
         /\ last.events[i].sub \notin last.before.cancelled
         /\ ~\E j \in 1..(i - 1) :
               /\ last.events[j].ev = "unsub"
               /\ last.events[j].sub = last.events[i].sub
  /\ \A s \in 1..Len(subFn) :
       s \notin cancelled => \E k \in 1..Len(listeners) : listeners[k].sub = s

\* C5: addUpload with no input fails silently: nothing is appended, and no
\* later call raises an error.
C5_NoInputFailsSilently ==
  /\ \A i \in 1..Len(uploads) : uploads[i] # Undefined
  /\ ~last.threw

(***************************************************************************)
(* Claims about addImageToCanvas, checked under InsertSpec.                *)
(***************************************************************************)
\* n + 2^(-p) and n - 2^(-p), for an integer n
JustAbove(n, p) == [m |-> BigInc(BigShl(BigOf(n), p)), e |-> -p]
JustBelow(n, p) == [m |-> BigTrim(BigMinus(BigShl(BigOf(n), p), <<1>>, 0)), e |-> -p]

\* x * n, not rounded
Product(x, n) ==
  LET a == BigTimes(x.m, n, 0)
      k == CHOOSE z \in 0..(BitLen(a) - 1) :
             Bit(a, z + 1) = 1 /\ \A b \in 1..z : Bit(a, b) = 0
  IN [m |-> BigShr(a, k), e |-> x.e + k]

\* |x - y| <= y / 2^p
Within(x, y, p) ==
  LET e0 == IF x.e < y.e THEN x.e ELSE y.e
      a == BigShl(x.m, x.e - e0)
      b == BigShl(y.m, y.e - e0)
  IN BigLeq(BigShl(BigDiff(a, b), p), b)

Scaled == image.width > maxWidth \/ image.height > maxHeight

\* C6 as stated: an image within 600 by 400 is placed at its own size, any
\* other at a size of at most 600 by 400 whose aspect ratio is exactly the
\* image's; 1200x800 gives 600x400, 300x200 gives 300x200, 800x300 gives
\* 600x225.
C6_FitsTheBoxExactly ==
  \A i \in 1..Len(elements) :
    LET el == elements[i]
        w == image.width
        h == image.height
    IN /\ ~Scaled => el.width = Int2Num(w) /\ el.height = Int2Num(h)
       /\ Leq(el.width, Int2Num(maxWidth))
       /\ Leq(el.height, Int2Num(maxHeight))
       /\ Product(el.width, h) = Product(el.height, w)
       /\ w = 1200 /\ h = 800 => el.width = Int2Num(600) /\ el.height = Int2Num(400)
       /\ w = 300 /\ h = 200 => el.width = Int2Num(300) /\ el.height = Int2Num(200)
       /\ w = 800 /\ h = 300 => el.width = Int2Num(600) /\ el.height = Int2Num(225)

\* C6 as amended: an image within 600 by 400 is placed at its own size; any
\* other is placed at a width of at most 600 + 2^-43 and a height of at most
\* 400 + 2^-44 (the next Number above the bound), with one of the two no
\* further than that below its bound, and with width * h and height * w
\* differing by at most height * w / 2^51; the three examples are exact.
C6_FitsTheBoxUpToRounding ==
  \A i \in 1..Len(elements) :
    LET el == elements[i]
        w == image.width
        h == image.height
    IN /\ ~Scaled => el.width = Int2Num(w) /\ el.height = Int2Num(h)
       /\ Scaled =>
            /\ Leq(el.width, JustAbove(maxWidth, 43))
            /\ Leq(el.height, JustAbove(maxHeight, 44))
            /\ \/ Leq(JustBelow(maxWidth, 43), el.width)
               \/ Leq(JustBelow(maxHeight, 44), el.height)
            /\ Within(Product(el.width, h), Product(el.height, w), 51)
       /\ w = 1200 /\ h = 800 => el.width = Int2Num(600) /\ el.height = Int2Num(400)
       /\ w = 300 /\ h = 200 => el.width = Int2Num(300) /\ el.height = Int2Num(200)
       /\ w = 800 /\ h = 300 => el.width = Int2Num(600) /\ el.height = Int2Num(225)

\* an image too large for the box has been placed, higher than 400
C6_Witness ==
  /\ Scaled
  /\ \E i \in 1..Len(elements) : ~Leq(elements[i].height, Int2Num(maxHeight))

\* the steps call c of addImageToCanvas can take
StepOf(c) == ImgOnload(c) \/ ImgError(c) \/ Resume(c)

\* C7: when the probe of an image's size fails, the addImageToCanvas call
\* goes on to end having logged an error; it asks the editor for no element
\* and leaves the upload store as it was.
C7_ProbeFailureIsLoggedAndAborts ==
  \A c \in 1..Len(inserts) :
    inserts[c] = "failed" =>
      /\ \A i \in 1..Len(elements) : elements[i].by # c
      /\ uploads = <<>> /\ listeners = <<>>
      /\ \/ console # <<>>
         \/ ENABLED StepOf(c)

(***************************************************************************)
(* Claims about handleDownload, checked under DownloadSpec.                *)
(***************************************************************************)
Blank(s) == \A i \in 1..Len(s) : s[i] = " " \/ s[i] = "\t"

\* C8: a handleDownload call with an empty or all-whitespace name alerts and
\* aborts: it does not call toDataURL, makes no link, and does not set
\* isDownloading.
C8_BlankNameAborts ==
  /\ (calls > 0 /\ Blank(latest.name)) =>
       /\ latest.alerted
       /\ ~latest.busy
       /\ ~latest.rasterized
       /\ latest.download = <<>>
       /\ latest.outcome = "aborted"
  /\ isDownloading => ~Blank(run.name)

C8_Witness ==
  /\ calls > 0
  /\ Len(latest.name) = 2
  /\ Blank(latest.name)
  /\ latest.alerted

\* C9: every handleDownload call that sets isDownloading sets it back to
\* false, whether toDataURL resolves or rejects; when it rejects, the error
\* is logged and no link is made.
C9_IndicatorIsCleared ==
  /\ [](isDownloading => <>(~isDownloading))
  /\ [](latest.outcome = "failed" =>
          /\ console # <<>>
          /\ latest.download = <<>>)

C9_Witness ==
  /\ ~isDownloading
  /\ latest.busy
  /\ latest.outcome = "failed"

====
